---- MODULE Spec2Model ----
(***************************************************************************)
(* Orbital bias-correction engine of greenland-glacier-flow                *)
(* (3_orthocorrect_and_netcdf-package): the orchestrator                   *)
(* orthocorrect_netcdf-package.py and the processing chain                 *)
(* 1_match_to_orbits.py, 2_get_orbital_average_offset.py,                  *)
(* 3_correct_fields.py with lib/functions.py and                           *)
(* lib/correct_fields_parts.py.                                            *)
(*                                                                         *)
(* Spec        : one glacier, the files of its output tree, the three      *)
(*               scripts and the orchestrator's loop over them.            *)
(* SpecCorrect : correct_velocity on the pixels of one record.             *)
(* SpecAngle   : the angular difference of the directional filter.         *)
(* SpecRerun   : as Spec, started on the output tree of an earlier run.    *)
(* SpecTable   : the OrbitCatalog and the PairTable on concrete scenes.    *)
(* SpecOffset  : the offset of one orbit pair at one pixel.                *)
(* SpecSign    : offset and correction under both signs of day_sep.        *)
(* SpecBatch   : the worker pool of batch_glacier_processor.py.            *)
(* SpecArgs    : the orchestrator called with a list of glaciers.          *)
(* SpecSplit   : the date ranges of a run split around the DEM switch.     *)
(* SpecMasks   : the rock, ice and ocean masks of clip_gimp_tiles.         *)
(***************************************************************************)
EXTENDS Integers, Sequences, FiniteSets, TLC

(***************************************************************************)
(* Program constants.                                                      *)
(***************************************************************************)
THRESH_COUNT == 5

(***************************************************************************)
(* Bounds of the model.                                                    *)
(***************************************************************************)
MaxRepeat == 1   \* repeat-track records (R096_R096) in the accepted list
MaxCross == 5    \* records of the cross-track pair R096_R053
MaxOther == 1    \* records of the cross-track pair R053_R096
MaxLow == 1      \* cross-track records whose ice coverage after filtering is under 1%
MaxFaults == 1   \* exceptions and interruptions injected in one behaviour

VARIABLES
    accepted,   \* input: the QA-accepted velocity fields, <<orbit1, orbit2>> each
    split,      \* input: the date range spans the 2021-08-23 DEM switch
    orch,       \* orchestrator: "idle" | "running" | "done"
    script,     \* index into script_infos of the script being run
    rng,        \* index into the date ranges of the script being run
    phase,      \* position inside the running script
    idx,        \* loop index inside the running script
    code,       \* exit code of each script on each date range in this invocation (-1: not run)
    why,        \* cause of the failure that ended this invocation
    resumed,    \* the orchestrator has been invoked before on this output tree
    faults,     \* faults injected so far
    outdir,     \* <base_dir>/<OUTDIRNAME>/<glacier> and its orbits directory exist
    orbitsCsv,  \* <glacier>_orbits.csv exists
    pairsCsv,   \* <glacier>_orbit_pairs.csv exists
    median,     \* <glacier>_median_orbitmatch_<w>: number of times written
    medianSrc,  \* the records whose rasters the median file was built from
    flowdir,    \* <glacier>_median_orbitmatch_flowdir.tif exists
    offset,     \* <glacier>_median_offset_<pair>_<w>.tif exists
    cor,        \* per record: the corrected files written
    masks,      \* gimp_masks: the mask files written
    log,        \* the log file, as the set of its entries
    rd,         \* the raster stacks read by the running script
    lowcov,     \* input: the records whose ice coverage after filtering is under 1%
    cv,         \* state of the pixel-level specifications
    tb,         \* state of the catalog and PairTable specification
    bp          \* state of the batch and orchestrator-arguments specifications

vars == <<accepted, split, orch, script, rng, phase, idx, code, why, resumed,
          faults, outdir, orbitsCsv, pairsCsv, median, medianSrc, flowdir,
          offset, cor, masks, log, rd, lowcov, cv, tb, bp>>

Wild == {"dmag", "dx", "dy"}
Comp == {"dx", "dy"}
Orbits == {"096", "053"}
CorFiles == {"vx", "vy", "vv", "meta"}

(***************************************************************************)
(* The PairTable (df) of 2_get_orbital_average_offset.py.                  *)
(***************************************************************************)
PairKey(o1, o2) == <<o1, o2>>   \* "R" + orbit1 + "_R" + orbit2

OrbitMatch(o1, o2) == IF o1 = o2 THEN 1 ELSE 0

DF(acc) ==
    [i \in DOMAIN acc |->
        [id |-> i,
         orbit1 |-> acc[i][1],
         orbit2 |-> acc[i][2],
         orbit_pair |-> PairKey(acc[i][1], acc[i][2]),
         orbit_match |-> OrbitMatch(acc[i][1], acc[i][2])]]

AllRows(df) == DOMAIN df

RepeatTrackRows(df) == {i \in DOMAIN df : df[i].orbit_match = 1}

PairRows(df, p) == {i \in DOMAIN df : df[i].orbit_pair = p}

\* df["orbit_pair"].unique(): the keys in order of first appearance
RECURSIVE UniqueFrom(_, _, _)
UniqueFrom(df, i, seen) ==
    IF i > Len(df) THEN seen
    ELSE IF \E j \in DOMAIN seen : seen[j] = df[i].orbit_pair
         THEN UniqueFrom(df, i + 1, seen)
         ELSE UniqueFrom(df, i + 1, Append(seen, df[i].orbit_pair))

OrbitPairs(df) == UniqueFrom(df, 1, <<>>)

BelowThresholdLE(n) == n <= THRESH_COUNT

BelowThreshold(n) == n < THRESH_COUNT

\* os.path.exists(path) on a file kept as a write count
FileExists(n) == n > 0

MedianNeverSkipped(m, w) == FALSE

\* get_median_field_of_arrays_from_df: the output file already exists
MedianAlreadyExists(m, w) == FileExists(m[w])

\* the order in which 2_get_orbital_average_offset.py builds the medians
MedianOrder == <<"dmag", "dx", "dy">>

NoOffsetNever(off, p) == FALSE

\* 3_correct_fields.py: dx_diff_array is None
NoOffset(off, p) == ~off[<<p, "dx">>]

(***************************************************************************)
(* The orchestrator's script list.                                         *)
(***************************************************************************)
script_infos ==
    << [filename |-> "1_match_to_orbits.py", graceful_failure |-> FALSE],
       [filename |-> "2_get_orbital_average_offset.py", graceful_failure |-> FALSE],
       [filename |-> "3_correct_fields.py", graceful_failure |-> FALSE],
       [filename |-> "4a_netcdf_stack_sentinel.py", graceful_failure |-> TRUE],
       [filename |-> "4b_netcdf_stack_landsat.py", graceful_failure |-> TRUE],
       [filename |-> "4c_netcdf_stack_landsat_sentinel_combined.py", graceful_failure |-> FALSE] >>

NRanges == IF split THEN 2 ELSE 1

ContinuesOnError(s, c) == FALSE

StopsOnAnyError(s, c) == c # 0

\* exit_code != 0 of a script that is not allowed to fail gracefully
StopsOnError(s, c) == c # 0 /\ ~script_infos[s].graceful_failure


(***************************************************************************)
(* Initial state: a fresh output tree and an orchestrator not yet started. *)
(***************************************************************************)
Scenario(nOther, nRep, nCross) ==
    [i \in 1..(nOther + nRep + nCross) |->
        IF i <= nOther THEN <<"053", "096">>
        ELSE IF i <= nOther + nRep THEN <<"096", "096">>
        ELSE <<"096", "053">>]

NoCodes == [sr \in (DOMAIN script_infos) \X {1, 2} |-> -1]

InitDisk ==
    /\ outdir = FALSE
    /\ orbitsCsv = FALSE
    /\ pairsCsv = FALSE
    /\ median = [w \in Wild |-> 0]
    /\ medianSrc = [w \in Wild |-> {}]
    /\ flowdir = FALSE
    /\ offset = [f \in (Orbits \X Orbits) \X Comp |-> FALSE]
    /\ cor = [i \in DOMAIN accepted |-> {}]
    /\ masks = {}
    /\ log = {}

InitControl ==
    /\ orch = "idle"
    /\ script = 0
    /\ rng = 0
    /\ phase = "none"
    /\ idx = 0
    /\ code = NoCodes
    /\ why = "none"
    /\ resumed = FALSE
    /\ faults = 0
    /\ rd = {}

Init ==
    /\ \E nOther \in 0..MaxOther, nRep \in 0..MaxRepeat,
          nCross \in (THRESH_COUNT - 1)..MaxCross :
          accepted = Scenario(nOther, nRep, nCross)
    /\ \E nLow \in 0..MaxLow :
          lowcov = {i \in DOMAIN accepted :
                       /\ accepted[i] = <<"096", "053">>
                       /\ Cardinality({j \in 1..i : accepted[j] = accepted[i]}) <= nLow}
    /\ split \in BOOLEAN
    /\ InitControl
    /\ InitDisk
    /\ cv = <<>>
    /\ tb = <<>>
    /\ bp = <<>>

df == DF(accepted)

Detailed(s) == orch = "running" /\ script = s /\ rng = 1

CanFault == faults < MaxFaults

(***************************************************************************)
(* correct_glacier_velocity: what follows a script's exit with code c.     *)
(***************************************************************************)
End(c, cause) ==
    /\ code' = [code EXCEPT ![<<script, rng>>] = c]
    /\ phase' = "begin"
    /\ idx' = 0
    /\ rd' = {}
    /\ IF StopsOnError(script, c)
       THEN /\ orch' = "done"
            /\ why' = cause
            /\ UNCHANGED <<script, rng>>
       ELSE /\ why' = why
            /\ IF rng < NRanges
               THEN orch' = orch /\ script' = script /\ rng' = rng + 1
               ELSE IF script < Len(script_infos)
                    THEN orch' = orch /\ script' = script + 1 /\ rng' = 1
                    ELSE /\ orch' = IF split THEN "combine" ELSE "done"
                         /\ UNCHANGED <<script, rng>>

Inputs == <<accepted, split, lowcov, cv, tb, bp>>
Disk2 == <<pairsCsv, median, medianSrc, flowdir, offset>>
Disk3 == <<cor, masks>>

\* the orchestrator is started: it skips a glacier whose directory exists
Invoke ==
    /\ orch \in {"idle", "done"}
    /\ resumed' = (orch = "done")
    /\ code' = NoCodes
    /\ why' = "none"
    /\ IF ~split /\ outdir
       THEN orch' = "done" /\ UNCHANGED <<script, rng, phase>>
       ELSE orch' = "running" /\ script' = 1 /\ rng' = 1 /\ phase' = "begin"
    /\ UNCHANGED <<idx, rd, faults, outdir, orbitsCsv, log>>
    /\ UNCHANGED <<Inputs, Disk2, Disk3>>

\* 1_match_to_orbits.py
Step1 ==
    /\ Detailed(1)
    /\ outdir' = TRUE
    /\ \/ orbitsCsv' = TRUE /\ End(0, "none") /\ UNCHANGED faults
       \/ /\ CanFault
          /\ faults' = faults + 1
          /\ End(1, "exception")
          /\ UNCHANGED orbitsCsv
    /\ UNCHANGED <<resumed, log>>
    /\ UNCHANGED <<Inputs, Disk2, Disk3>>

\* the scripts 4a, 4b, 4c, and every script on the post-switch date range
RunOther ==
    /\ orch = "running"
    /\ script > 3 \/ rng = 2
    /\ \E c \in {0, 1} : End(c, "other")
    /\ UNCHANGED <<resumed, faults, outdir, orbitsCsv, log>>
    /\ UNCHANGED <<Inputs, Disk2, Disk3>>

\* 4d_netcdf_stack_pre_post_dem_switch.py, after the loop of a split run
Combine ==
    /\ orch = "combine"
    /\ orch' = "done"
    /\ UNCHANGED <<script, rng, phase, idx, code, why, resumed, faults, rd,
                   outdir, orbitsCsv, log>>
    /\ UNCHANGED <<Inputs, Disk2, Disk3>>

\* the running script is interrupted between two of its stages
Kill ==
    /\ orch = "running" /\ rng = 1 /\ script \in {2, 3}
    /\ phase # "begin"
    /\ CanFault
    /\ faults' = faults + 1
    /\ End(1, "killed")
    /\ UNCHANGED <<resumed, outdir, orbitsCsv, log>>
    /\ UNCHANGED <<Inputs, Disk2, Disk3>>

Stay == UNCHANGED <<orch, script, rng, code, why, resumed>>

(***************************************************************************)
(* 2_get_orbital_average_offset.py                                         *)
(***************************************************************************)
\* the PairTable is built from the catalog and written to orbit_pairs.csv
Step2Table ==
    /\ Detailed(2) /\ phase = "begin"
    /\ IF ~orbitsCsv
       THEN End(1, "missing_input") /\ UNCHANGED <<resumed, pairsCsv>>
       ELSE pairsCsv' = TRUE /\ phase' = "apriori" /\ Stay /\ UNCHANGED <<idx, rd>>
    /\ UNCHANGED <<faults, outdir, orbitsCsv, log, median, medianSrc, flowdir, offset>>
    /\ UNCHANGED <<Inputs, Disk3>>

\* the a priori section is entered unless the median dy raster exists
Step2Gate ==
    /\ Detailed(2) /\ phase = "apriori"
    /\ IF FileExists(median["dy"])
       THEN phase' = "offsets" /\ idx' = 1 /\ Stay /\ UNCHANGED <<rd, log>>
       ELSE IF RepeatTrackRows(df) = {}
            THEN /\ log' = log \cup {<<"no_repeat_track">>}
                 /\ End(1, "fatal")
                 /\ UNCHANGED resumed
            ELSE phase' = "median" /\ idx' = 1 /\ Stay /\ UNCHANGED <<rd, log>>
    /\ UNCHANGED <<faults, outdir, orbitsCsv>>
    /\ UNCHANGED <<Inputs, Disk2, Disk3>>

\* get_median_field_of_arrays_from_df(glacier, df_filtered, bounds, w, ...)
Step2Median ==
    /\ Detailed(2) /\ phase = "median"
    /\ LET w == MedianOrder[idx]
           rows == RepeatTrackRows(df)
           advance == /\ IF idx < Len(MedianOrder)
                         THEN idx' = idx + 1 /\ phase' = phase
                         ELSE idx' = 0 /\ phase' = "flowdir"
                      /\ Stay
       IN  \/ /\ MedianAlreadyExists(median, w)
              /\ log' = log \cup {<<"median_exists", w>>}
              /\ advance
              /\ UNCHANGED <<median, medianSrc, rd, faults>>
           \/ /\ ~MedianAlreadyExists(median, w)
              /\ median' = [median EXCEPT ![w] = @ + 1]
              /\ medianSrc' = [medianSrc EXCEPT ![w] = rows]
              /\ rd' = rd \cup {w}
              /\ advance
              /\ UNCHANGED <<log, faults>>
           \/ /\ ~MedianAlreadyExists(median, w)
              /\ CanFault
              /\ faults' = faults + 1
              /\ End(1, "exception")
              /\ UNCHANGED <<median, medianSrc, log, resumed>>
    /\ UNCHANGED <<outdir, orbitsCsv, pairsCsv, flowdir, offset>>
    /\ UNCHANGED <<Inputs, Disk3>>

\* generate_flow_direction_tif
Step2FlowDir ==
    /\ Detailed(2) /\ phase = "flowdir"
    /\ IF FileExists(median["dx"]) /\ FileExists(median["dy"])
       THEN flowdir' = TRUE /\ phase' = "offsets" /\ idx' = 1 /\ Stay /\ UNCHANGED rd
       ELSE End(1, "missing_input") /\ UNCHANGED <<resumed, flowdir>>
    /\ UNCHANGED <<faults, outdir, orbitsCsv, log, pairsCsv, median, medianSrc, offset>>
    /\ UNCHANGED <<Inputs, Disk3>>

\* get_offset_of_orbit_pairs_from_a_priori for the next orbit pair
Step2Offsets ==
    /\ Detailed(2) /\ phase = "offsets"
    /\ LET pairs == OrbitPairs(df)
           p == pairs[idx]
           n == Cardinality(PairRows(df, p))
           next == idx' = idx + 1 /\ phase' = phase /\ Stay /\ UNCHANGED rd
           only(w) == [offset EXCEPT ![<<p, w>>] = TRUE]
           both == [offset EXCEPT ![<<p, "dx">>] = TRUE, ![<<p, "dy">>] = TRUE]
       IN  IF idx > Len(pairs)
           THEN End(0, "none") /\ UNCHANGED <<resumed, offset, log, faults>>
           ELSE
           \/ /\ BelowThreshold(n)
              /\ log' = log \cup {<<"insufficient", p>>}
              /\ next
              /\ UNCHANGED <<offset, faults>>
           \/ /\ ~BelowThreshold(n)
              /\ offset[<<p, "dx">>]
              /\ log' = log \cup {<<"offset_exists", p, "dx">>}
              /\ next
              /\ UNCHANGED <<offset, faults>>
           \/ /\ ~BelowThreshold(n)
              /\ ~offset[<<p, "dx">>]
              /\ \/ /\ ~FileExists(median["dx"])
                    /\ End(1, "missing_input")
                    /\ UNCHANGED <<resumed, offset, log, faults>>
                 \/ /\ FileExists(median["dx"])
                    /\ CanFault
                    /\ faults' = faults + 1
                    /\ End(1, "exception")
                    /\ UNCHANGED <<resumed, offset, log>>
                 \/ /\ FileExists(median["dx"])
                    /\ offset[<<p, "dy">>]
                    /\ offset' = only("dx")
                    /\ log' = log \cup {<<"offset_exists", p, "dy">>}
                    /\ End(1, "exception")
                    /\ UNCHANGED <<resumed, faults>>
                 \/ /\ FileExists(median["dx"])
                    /\ ~offset[<<p, "dy">>]
                    /\ \/ /\ ~FileExists(median["dy"])
                          /\ offset' = only("dx")
                          /\ End(1, "missing_input")
                          /\ UNCHANGED <<resumed, log, faults>>
                       \/ /\ FileExists(median["dy"])
                          /\ CanFault
                          /\ faults' = faults + 1
                          /\ offset' = only("dx")
                          /\ End(1, "exception")
                          /\ UNCHANGED <<resumed, log>>
                       \/ /\ FileExists(median["dy"])
                          /\ offset' = both
                          /\ next
                          /\ UNCHANGED <<log, faults>>
    /\ UNCHANGED <<outdir, orbitsCsv, pairsCsv, median, medianSrc, flowdir>>
    /\ UNCHANGED <<Inputs, Disk3>>

(***************************************************************************)
(* 3_correct_fields.py                                                     *)
(***************************************************************************)
MaskOrderRockFirst == <<"rock", "ice", "ocean">>

\* the order in which clip_gimp_tiles writes the masks
MaskOrder == <<"ice", "ocean", "rock">>

\* the order in which correct_velocity writes a record's files
CorOrder == <<"vx", "vy", "vv", "meta">>

Written(order, k) == {order[j] : j \in 1..k}

\* reference rasters and table are loaded, the masks built if mask_rock.tif
\* is absent, the offset dictionaries filled
Step3Start ==
    /\ Detailed(3) /\ phase = "begin"
    /\ LET go == phase' = "loop" /\ idx' = 1 /\ Stay /\ UNCHANGED rd
       IN  IF ~FileExists(median["dmag"]) \/ ~pairsCsv \/ ~flowdir
           THEN End(1, "missing_input") /\ UNCHANGED <<resumed, masks, faults>>
           ELSE IF "rock" \in masks
           THEN IF "ice" \in masks
                THEN go /\ UNCHANGED <<masks, faults>>
                ELSE End(1, "missing_input") /\ UNCHANGED <<resumed, masks, faults>>
           ELSE \/ /\ masks' = masks \cup Written(MaskOrder, Len(MaskOrder))
                   /\ go
                   /\ UNCHANGED faults
                \/ /\ CanFault
                   /\ faults' = faults + 1
                   /\ \E k \in 0..(Len(MaskOrder) - 1) :
                         masks' = masks \cup Written(MaskOrder, k)
                   /\ End(1, "killed")
                   /\ UNCHANGED resumed
    /\ UNCHANGED <<outdir, orbitsCsv, log, cor>>
    /\ UNCHANGED <<Inputs, Disk2>>

\* one pass of the loop over orbital_df.iterrows(), correct_velocity included
Step3Record ==
    /\ Detailed(3) /\ phase = "loop"
    /\ LET row == df[idx]
           p == row.orbit_pair
           next == idx' = idx + 1 /\ phase' = phase /\ Stay /\ UNCHANGED rd
       IN  IF idx > Len(df)
           THEN End(0, "none") /\ UNCHANGED <<resumed, cor, log, faults>>
           ELSE
           \/ /\ NoOffset(offset, p)
              /\ next
              /\ UNCHANGED <<cor, log, faults>>
           \/ /\ ~NoOffset(offset, p)
              /\ "vv" \in cor[idx]
              /\ log' = log \cup {<<"record_exists", idx>>}
              /\ next
              /\ UNCHANGED <<cor, faults>>
           \/ /\ ~NoOffset(offset, p)
              /\ "vv" \notin cor[idx]
              /\ \/ /\ CanFault
                    /\ faults' = faults + 1
                    /\ End(1, "record")
                    /\ UNCHANGED <<resumed, cor, log>>
                 \/ /\ ~offset[<<p, "dy">>]
                    /\ End(1, "offset_absent")
                    /\ UNCHANGED <<resumed, cor, log, faults>>
                 \/ /\ offset[<<p, "dy">>]
                    /\ idx \in lowcov
                    /\ next
                    /\ UNCHANGED <<cor, log, faults>>
                 \/ /\ offset[<<p, "dy">>]
                    /\ idx \notin lowcov
                    /\ cor' = [cor EXCEPT ![idx] = @ \cup Written(CorOrder, Len(CorOrder))]
                    /\ next
                    /\ UNCHANGED <<log, faults>>
                 \/ /\ offset[<<p, "dy">>]
                    /\ idx \notin lowcov
                    /\ CanFault
                    /\ faults' = faults + 1
                    /\ \E k \in 0..(Len(CorOrder) - 1) :
                          cor' = [cor EXCEPT ![idx] = @ \cup Written(CorOrder, k)]
                    /\ End(1, "killed")
                    /\ UNCHANGED <<resumed, log>>
    /\ UNCHANGED <<outdir, orbitsCsv, masks>>
    /\ UNCHANGED <<Inputs, Disk2>>

Next ==
    \/ Invoke
    \/ Step1
    \/ Step2Table
    \/ Step2Gate
    \/ Step2Median
    \/ Step2FlowDir
    \/ Step2Offsets
    \/ Step3Start
    \/ Step3Record
    \/ RunOther
    \/ Combine
    \/ Kill

Spec == Init /\ [][Next]_vars

(***************************************************************************)
(* The same pipeline started on a tree that may hold the catalog, the      *)
(* PairTable and the reference rasters of an earlier run made with other   *)
(* dates or manifests: the scripts are run again whenever the glacier's    *)
(* directory under base_dir is absent (always so in a split run), and the  *)
(* PairTable is rebuilt from the manifests of the day.                     *)
(***************************************************************************)
EarlierDisk(prior) ==
    /\ outdir = prior
    /\ orbitsCsv = prior
    /\ pairsCsv = prior
    /\ median = [w \in Wild |-> IF prior THEN 1 ELSE 0]
    /\ medianSrc = [w \in Wild |-> {}]
    /\ flowdir = prior
    /\ offset = [f \in (Orbits \X Orbits) \X Comp |-> FALSE]
    /\ cor = [i \in DOMAIN accepted |-> {}]
    /\ masks = {}
    /\ log = {}

RerunInit ==
    /\ \E nOther \in 0..MaxOther, nRep \in 0..MaxRepeat,
          nCross \in (THRESH_COUNT - 1)..MaxCross :
          accepted = Scenario(nOther, nRep, nCross)
    /\ lowcov = {}
    /\ split \in BOOLEAN
    /\ InitControl
    /\ \E prior \in BOOLEAN : EarlierDisk(prior)
    /\ cv = <<>>
    /\ tb = <<>>
    /\ bp = <<>>

SpecRerun == RerunInit /\ [][Next]_vars

(***************************************************************************)
(* correct_velocity on one record, pixel by pixel.  A raster is a sequence *)
(* of blocks; block k stands for px[k].n pixels with the same inputs.      *)
(* Velocities are in tenths of a metre per day, offsets in tenths of a     *)
(* metre, angles in thousandths of a degree.  NaN is the empty tuple, a    *)
(* number v the tuple <<v>>.                                               *)
(***************************************************************************)
NaN == <<>>

IsNaN(x) == x = NaN

Finite(x) == x # NaN

Abs(i) == IF i < 0 THEN -i ELSE i

\* the quotient a / b for b # 0, exact on the inputs drawn below
Quot(a, b) ==
    IF b > 0
    THEN IF a >= 0 THEN a \div b ELSE -((-a) \div b)
    ELSE IF a >= 0 THEN -(a \div (-b)) ELSE (-a) \div (-b)

\* nodata_values=[0, -9999] of the two loads, in tenths
nodata_values == {0, -99990}

\* load_resampled_array: a file value that is a nodata value becomes NaN
LoadPx(v) == IF v \in nodata_values THEN NaN ELSE <<v>>

\* dx[mask == 0] = np.nan, when the record's mask file exists
ApplyMask(x, exists, m) == IF exists /\ m = 0 THEN NaN ELSE x

\* the comparison dx == np.nan: false at every pixel, NaN included
EqualsNaN(x) == FALSE

\* np.where(dx == np.nan, np.nan, offset)
BasicFilter(x, off) == IF EqualsNaN(x) THEN NaN ELSE off

ApplyOffsetTimes(raw, off, ds) ==
    IF IsNaN(raw) \/ IsNaN(off) THEN NaN ELSE <<raw[1] + off[1] * ds>>

ApplyOffsetAbs(raw, off, ds) ==
    IF IsNaN(raw) \/ IsNaN(off) THEN NaN ELSE <<raw[1] + Quot(off[1], Abs(ds))>>

\* dx + (dx_offset / row["day_sep"])
ApplyOffset(raw, off, ds) ==
    IF IsNaN(raw) \/ IsNaN(off) THEN NaN ELSE <<raw[1] + Quot(off[1], ds)>>

\* arctan in thousandths of a degree, for the ratios n/d that occur
ArctanTable ==
    { <<0, 1, 0>>, <<1, 9, 6340>>, <<5, 9, 29055>>, <<3, 5, 30964>>,
      <<1, 1, 45000>>, <<5, 3, 59036>>, <<3, 1, 71565>>, <<5, 1, 78690>> }

ArctanMilli(n, d) == (CHOOSE e \in ArctanTable : n * e[2] = e[1] * d)[3]

RightAngle == 90000
HalfTurn == 180000
FullTurn == 360000
FlowDiffLimit == 20000

\* np.degrees(np.arctan(dy_cor / dx_cor))
ArctanPx(y, x) ==
    IF IsNaN(y) \/ IsNaN(x) THEN NaN
    ELSE IF x[1] = 0
         THEN IF y[1] = 0 THEN NaN
              ELSE IF y[1] > 0 THEN <<RightAngle>> ELSE <<-RightAngle>>
         ELSE LET a == ArctanMilli(Abs(y[1]), Abs(x[1]))
              IN  IF (y[1] >= 0) = (x[1] > 0) THEN <<a>> ELSE <<-a>>

\* np.where(dx > 0, angle, angle + 180), then the wrap into (-180, 180]
Quadrant(raw, angle) ==
    IF IsNaN(angle) THEN NaN
    ELSE IF Finite(raw) /\ raw[1] > 0 THEN angle ELSE <<angle[1] + HalfTurn>>

WrapAngle(angle) ==
    IF IsNaN(angle) THEN NaN
    ELSE IF angle[1] > HalfTurn THEN <<angle[1] - FullTurn>> ELSE angle

\* generate_flow_direction_tif: the angle of the reference flow direction
FlowDirection(x, y) == WrapAngle(Quadrant(x, ArctanPx(y, x)))

AngleDifferenceNoWrap(a, b) == Abs(a - b)

\* np.abs(flowdir_ref - angle), then 360 - it where it exceeds 180
AngleDifference(a, b) ==
    LET d == Abs(a - b) IN IF d > HalfTurn THEN FullTurn - d ELSE d

FlowDiffPx(ref, angle) ==
    IF IsNaN(ref) \/ IsNaN(angle) THEN NaN
    ELSE <<AngleDifference(ref[1], angle[1])>>

DirectionFilterGE(x, diff, ice) ==
    IF Finite(diff) /\ diff[1] >= FlowDiffLimit /\ ice = 1 THEN NaN ELSE x

\* dx_cor[(flow_diff > 20) & (icemask_array == 1)] = np.nan
DirectionFilter(x, diff, ice) ==
    IF Finite(diff) /\ diff[1] > FlowDiffLimit /\ ice = 1 THEN NaN ELSE x

\* np.square(dx_cor) + np.square(dy_cor), the square of dmag_cor
DmagSq(x, y) == IF IsNaN(x) \/ IsNaN(y) THEN NaN ELSE <<x[1] * x[1] + y[1] * y[1]>>

RECURSIVE SumTo(_, _)
SumTo(f, k) == IF k = 0 THEN 0 ELSE f[k] + SumTo(f, k - 1)

\* np.count_nonzero(icemask_array)
IcePxCount(px) ==
    SumTo([k \in DOMAIN px |-> IF px[k].ice # 0 THEN px[k].n ELSE 0], Len(px))

\* np.count_nonzero(~np.isnan(np.where(icemask_array == 1, dx_cor, np.nan)))
IcePxVelCount(px, x) ==
    SumTo([k \in DOMAIN px |->
              IF px[k].ice = 1 /\ Finite(x[k]) THEN px[k].n ELSE 0], Len(px))

TooLittleCoverageLE(valid, ice) == valid = 0 \/ valid * 100 <= ice

\* ice_px_vel_count == 0 or proportion < 0.01
TooLittleCoverage(valid, ice) == valid = 0 \/ valid * 100 < ice

MaxBackground == 100

DaySeps == {-10, -2, 5, 10}

\* the pixel under study, and a background of identical pixels
ProbePixels ==
    [ n : {1}, ice : {0, 1}, file_dx : {0, -99990, 20, -20}, file_dy : {0, 20},
      m : {0, 1}, off_dx : {NaN, <<50>>}, off_dy : {NaN, <<50>>},
      ref : {<<45000>>, <<65000>>, <<-135000>>} ]

BackgroundPixels ==
    [ n : (MaxBackground - 1)..MaxBackground, ice : {0, 1}, file_dx : {0, 20},
      file_dy : {20}, m : {1}, off_dx : {<<50>>}, off_dy : {<<50>>},
      ref : {<<45000>>, <<-135000>>} ]

Pipeline ==
    <<accepted, split, orch, script, rng, phase, idx, code, why, resumed,
      faults, outdir, orbitsCsv, pairsCsv, median, medianSrc, flowdir,
      offset, cor, masks, log, rd, lowcov>>

\* no orchestrator run in progress and nothing on disk
Idle ==
    /\ accepted = <<>>
    /\ split = FALSE
    /\ lowcov = {}
    /\ InitControl
    /\ InitDisk

CorrectInit ==
    /\ Idle
    /\ tb = <<>>
    /\ bp = <<>>
    /\ \E probe \in ProbePixels, back \in BackgroundPixels,
          ds \in DaySeps, me \in BOOLEAN :
          cv = [ pc |-> "start", day_sep |-> ds, mask_exists |-> me,
                 px |-> <<probe, back>>,
                 dx |-> <<>>, dy |-> <<>>,
                 dx_offset |-> <<>>, dy_offset |-> <<>>,
                 dx_pre |-> <<>>, dx_cor |-> <<>>, dy_cor |-> <<>>,
                 angle |-> <<>>, flow_diff |-> <<>>, dmag_sq |-> <<>>,
                 out |-> "none", files |-> {} ]

\* the two loads and the record's own mask
CvLoad ==
    /\ cv.pc = "start"
    /\ cv' = [cv EXCEPT
                !.pc = "loaded",
                !.dx = [k \in DOMAIN cv.px |->
                          ApplyMask(LoadPx(cv.px[k].file_dx), cv.mask_exists, cv.px[k].m)],
                !.dy = [k \in DOMAIN cv.px |->
                          ApplyMask(LoadPx(cv.px[k].file_dy), cv.mask_exists, cv.px[k].m)]]
    /\ UNCHANGED <<Pipeline, tb, bp>>

\* "basic filtering" of the offsets, then the correction
CvCorrect ==
    /\ cv.pc = "loaded"
    /\ LET offx == [k \in DOMAIN cv.px |-> BasicFilter(cv.dx[k], cv.px[k].off_dx)]
           offy == [k \in DOMAIN cv.px |-> BasicFilter(cv.dx[k], cv.px[k].off_dy)]
           corx == [k \in DOMAIN cv.px |-> ApplyOffset(cv.dx[k], offx[k], cv.day_sep)]
           cory == [k \in DOMAIN cv.px |-> ApplyOffset(cv.dy[k], offy[k], cv.day_sep)]
       IN  cv' = [cv EXCEPT !.pc = "corrected",
                            !.dx_offset = offx, !.dy_offset = offy,
                            !.dx_pre = corx, !.dx_cor = corx, !.dy_cor = cory]
    /\ UNCHANGED <<Pipeline, tb, bp>>

\* the flow direction, its difference from the reference, the filter
CvDirection ==
    /\ cv.pc = "corrected"
    /\ LET ang == [k \in DOMAIN cv.px |->
                     WrapAngle(Quadrant(cv.dx[k], ArctanPx(cv.dy_cor[k], cv.dx_cor[k])))]
           diff == [k \in DOMAIN cv.px |-> FlowDiffPx(cv.px[k].ref, ang[k])]
       IN  cv' = [cv EXCEPT !.pc = "filtered",
                            !.angle = ang, !.flow_diff = diff,
                            !.dx_cor = [k \in DOMAIN cv.px |->
                                          DirectionFilter(cv.dx_cor[k], diff[k], cv.px[k].ice)]]
    /\ UNCHANGED <<Pipeline, tb, bp>>

\* the coverage test and, past it, the four output files
CvCoverage ==
    /\ cv.pc = "filtered"
    /\ LET ice_px_count == IcePxCount(cv.px)
           ice_px_vel_count == IcePxVelCount(cv.px, cv.dx_cor)
       IN  IF ice_px_count = 0
           THEN cv' = [cv EXCEPT !.pc = "done", !.out = "ZeroDivisionError"]
           ELSE IF TooLittleCoverage(ice_px_vel_count, ice_px_count)
           THEN cv' = [cv EXCEPT !.pc = "done", !.out = "skipped"]
           ELSE LET dy_out == [k \in DOMAIN cv.px |->
                                  IF IsNaN(cv.dx_cor[k]) THEN NaN ELSE cv.dy_cor[k]]
                IN  cv' = [cv EXCEPT
                             !.pc = "done", !.out = "written",
                             !.dy_cor = dy_out,
                             !.dmag_sq = [k \in DOMAIN cv.px |->
                                            DmagSq(cv.dx_cor[k], dy_out[k])],
                             !.files = Written(CorOrder, Len(CorOrder))]
    /\ UNCHANGED <<Pipeline, tb, bp>>

CorrectNext == CvLoad \/ CvCorrect \/ CvDirection \/ CvCoverage

SpecCorrect == CorrectInit /\ [][CorrectNext]_vars

(***************************************************************************)
(* The angular difference alone, over all whole-degree angles in           *)
(* (-180, 180].                                                            *)
(***************************************************************************)
Degrees == {1000 * k : k \in -179..180}

AngleInit ==
    /\ Idle
    /\ tb = <<>>
    /\ bp = <<>>
    /\ \E a \in Degrees, b \in Degrees :
          cv = [pc |-> "angles", ref |-> a, angle |-> b, flow_diff |-> NaN]

FlowDiffStep ==
    /\ cv.pc = "angles"
    /\ cv' = [cv EXCEPT !.pc = "diff",
                        !.flow_diff = <<AngleDifference(cv.ref, cv.angle)>>]
    /\ UNCHANGED <<Pipeline, tb, bp>>

AngleNext == FlowDiffStep

SpecAngle == AngleInit /\ [][AngleNext]_vars

(***************************************************************************)
(* get_offset_of_orbit_pair_from_a_priori at one pixel, for one component  *)
(* of an orbit pair with THRESH_COUNT records.  cv.offset2 is twice the    *)
(* persisted offset, so that the mean of two middle values stays whole.    *)
(***************************************************************************)
RECURSIVE Insert(_, _)
Insert(v, s) ==
    IF s = <<>> THEN <<v>>
    ELSE IF v <= Head(s) THEN <<v>> \o s
         ELSE <<Head(s)>> \o Insert(v, Tail(s))

RECURSIVE Sort(_)
Sort(s) == IF s = <<>> THEN <<>> ELSE Insert(Head(s), Sort(Tail(s)))

\* np.nanmedian(array_list, axis=0) at one pixel, doubled
NanMedian2(arr) ==
    LET f == SelectSeq(arr, Finite)
        s == Sort([k \in 1..Len(f) |-> f[k][1]])
        m == Len(s)
    IN  IF m = 0 THEN NaN ELSE <<s[(m + 1) \div 2] + s[(m \div 2) + 1]>>

\* median_array - x
DiffFromAvg(avg, x) == IF IsNaN(avg) \/ IsNaN(x) THEN NaN ELSE <<avg[1] - x[1]>>

ToDisplacementCommon(arrays, day_sep_list) ==
    [i \in DOMAIN arrays |->
        IF IsNaN(arrays[i]) THEN NaN ELSE <<arrays[i][1] * day_sep_list[1]>>]

\* [(x * t) for x, t in zip(array_list, day_sep_list)]
ToDisplacement(arrays, day_sep_list) ==
    [i \in DOMAIN arrays |->
        IF IsNaN(arrays[i]) THEN NaN ELSE <<arrays[i][1] * day_sep_list[i]>>]

\* the records of the pair at this pixel: file value, mask, day_sep
FirstRecords ==
    [file : {0, 10, 30}, mask_exists : {TRUE}, m : {0, 1}, day_sep : {-2, -10}]

OtherRecords ==
    [file : {0, 10, 30}, mask_exists : {FALSE}, m : {1}, day_sep : {-2, -10}]

OffsetInit ==
    /\ Idle
    /\ tb = <<>>
    /\ bp = <<>>
    /\ \E first \in FirstRecords, rest \in [2..THRESH_COUNT -> OtherRecords],
          ref \in {0, 20} :
          cv = [ pc |-> "start",
                 recs |-> [i \in 1..THRESH_COUNT |-> IF i = 1 THEN first ELSE rest[i]],
                 ref_file |-> ref,
                 array_list |-> <<>>, offset2 |-> NaN, written |-> FALSE ]

\* get_list_of_masked_and_filtered_velocity_arrays_from_df, medfilt False
OfLoad ==
    /\ cv.pc = "start"
    /\ cv' = [cv EXCEPT
                !.pc = "loaded",
                !.array_list = [i \in DOMAIN cv.recs |->
                    ApplyMask(LoadPx(cv.recs[i].file), cv.recs[i].mask_exists, cv.recs[i].m)]]
    /\ UNCHANGED <<Pipeline, tb, bp>>

\* calc_diff_from_avg
OfDiff ==
    /\ cv.pc = "loaded"
    /\ cv' = [cv EXCEPT
                !.pc = "diffed",
                !.array_list = [i \in DOMAIN cv.recs |->
                    DiffFromAvg(LoadPx(cv.ref_file), cv.array_list[i])]]
    /\ UNCHANGED <<Pipeline, tb, bp>>

\* convert_velocity_array_list_to_displacement_array_list
OfDisplace ==
    /\ cv.pc = "diffed"
    /\ cv' = [cv EXCEPT
                !.pc = "displaced",
                !.array_list = ToDisplacement(cv.array_list,
                                  [i \in DOMAIN cv.recs |-> cv.recs[i].day_sep])]
    /\ UNCHANGED <<Pipeline, tb, bp>>

\* generate_average_products_from_array_list
OfMedian ==
    /\ cv.pc = "displaced"
    /\ cv' = [cv EXCEPT !.pc = "done", !.offset2 = NanMedian2(cv.array_list),
                        !.written = TRUE]
    /\ UNCHANGED <<Pipeline, tb, bp>>

OffsetNext == OfLoad \/ OfDiff \/ OfDisplace \/ OfMedian

SpecOffset == OffsetInit /\ [][OffsetNext]_vars

(***************************************************************************)
(* The offset of a pair and the correction of its records at one pixel,    *)
(* computed twice: with the day_sep column of the PairTable and with the   *)
(* negated column.  Index 1 of cv.day_sep, cv.offset2, cv.cor is the first *)
(* computation, index 2 the second.                                        *)
(***************************************************************************)
\* the offset raster holds half of offset2
Halve(o) == IF IsNaN(o) THEN NaN ELSE <<Quot(o[1], 2)>>

\* the record's raster as both scripts load it
RawPx(r) == ApplyMask(LoadPx(r.file), r.mask_exists, r.m)

SignInit ==
    /\ Idle
    /\ tb = <<>>
    /\ bp = <<>>
    /\ \E first \in FirstRecords, rest \in [2..THRESH_COUNT -> OtherRecords],
          ref \in {0, 20} :
          LET recs == [i \in 1..THRESH_COUNT |-> IF i = 1 THEN first ELSE rest[i]]
          IN  cv = [ pc |-> "start", recs |-> recs, ref_file |-> ref,
                     day_sep |-> << [i \in DOMAIN recs |-> recs[i].day_sep],
                                    [i \in DOMAIN recs |-> -recs[i].day_sep] >>,
                     offset2 |-> <<NaN, NaN>>,
                     cor |-> << <<>>, <<>> >> ]

\* get_offset_of_orbit_pair_from_a_priori with each day_sep column
SgOffsets ==
    /\ cv.pc = "start"
    /\ LET diffs == [i \in DOMAIN cv.recs |->
                        DiffFromAvg(LoadPx(cv.ref_file), RawPx(cv.recs[i]))]
       IN  cv' = [cv EXCEPT
                    !.pc = "offsets",
                    !.offset2 = [c \in 1..2 |->
                                    NanMedian2(ToDisplacement(diffs, cv.day_sep[c]))]]
    /\ UNCHANGED <<Pipeline, tb, bp>>

\* correct_velocity of every record with each day_sep column
SgCorrect ==
    /\ cv.pc = "offsets"
    /\ cv' = [cv EXCEPT
                !.pc = "corrected",
                !.cor = [c \in 1..2 |->
                           [i \in DOMAIN cv.recs |->
                               ApplyOffset(RawPx(cv.recs[i]), Halve(cv.offset2[c]),
                                           cv.day_sep[c][i])]]]
    /\ UNCHANGED <<Pipeline, tb, bp>>

SignNext == SgOffsets \/ SgCorrect

SpecSign == SignInit /\ [][SignNext]_vars

(***************************************************************************)
(* batch_glacier_processor.py: a pool of n_jobs workers, each running the  *)
(* orchestrator as a subprocess for one glacier.  bp.writes holds the      *)
(* pairs <<glacier of the worker, path written>>.                          *)
(***************************************************************************)
MaxGlaciers == 2
MaxCpus == 2

Regions == <<"001_alison", "002_anoritup", "003_apuseerajik", "004_apuseerserpia">>

\* f"{shared_log_dir}/{glacier}_step3.log"
LogName(g) == <<"LOG_DIR", g, "_step3.log">>

\* f"{'/'.join(log_name.split('/')[:-1])}/errored_glaciers.log"
ErroredLogName(log_name) == <<log_name[1], "errored_glaciers.log">>

\* os.path.join(base_dir, OUTDIRNAME, glacier) and everything below it
OutTree(g) == <<"base_dir", "OUTDIRNAME", g>>

Min(a, b) == IF a <= b THEN a ELSE b

BatchInit ==
    /\ Idle
    /\ cv = <<>>
    /\ tb = <<>>
    /\ \E n \in 1..MaxGlaciers, allocated_cpus \in 1..MaxCpus :
          bp = [ glaciers_to_process |-> SubSeq(Regions, 1, n),
                 n_jobs |-> Min(n, allocated_cpus),
                 task |-> [i \in 1..n |-> "queued"],
                 step |-> [i \in 1..n |-> 0],
                 results |-> [i \in 1..n |-> -1],
                 writes |-> {} ]

\* Parallel hands the next glacier to a free worker; process_glacier starts
\* the orchestrator, which opens its log file
Dispatch ==
    \E i \in DOMAIN bp.task :
        /\ bp.task[i] = "queued"
        /\ \A j \in 1..(i - 1) : bp.task[j] # "queued"
        /\ Cardinality({j \in DOMAIN bp.task : bp.task[j] = "running"}) < bp.n_jobs
        /\ bp' = [bp EXCEPT
                    !.task[i] = "running", !.step[i] = 1,
                    !.writes = @ \cup {<<bp.glaciers_to_process[i],
                                         LogName(bp.glaciers_to_process[i])>>}]
        /\ UNCHANGED <<Pipeline, cv, tb>>

\* one script of the chain is run by the worker of glacier i and exits
\* with code c (try_command_with_log_and_*_on_error)
RunScript ==
    \E i \in DOMAIN bp.task, c \in {0, 1} :
        LET g == bp.glaciers_to_process[i]
            s == bp.step[i]
            w == {<<g, OutTree(g)>>, <<g, LogName(g)>>}
                   \cup IF c # 0 THEN {<<g, ErroredLogName(LogName(g))>>} ELSE {}
            last == StopsOnError(s, c) \/ s = Len(script_infos)
        IN  /\ bp.task[i] = "running"
            /\ bp' = [bp EXCEPT
                        !.writes = @ \cup w,
                        !.step[i] = IF last THEN s ELSE s + 1,
                        !.task[i] = IF last THEN "done" ELSE "running",
                        !.results[i] = IF last THEN 0 ELSE -1]
            /\ UNCHANGED <<Pipeline, cv, tb>>

BatchNext == Dispatch \/ RunScript

SpecBatch == BatchInit /\ [][BatchNext]_vars

(***************************************************************************)
(* orthocorrect_netcdf-package.py called with a --glaciers list.           *)
(* bp.invoked holds <<glacier, script, date range>> for every script run.  *)
(***************************************************************************)
\* the lists args.glaciers.split(",") can give: the names in any order,
\* or the one empty name of the default ""
RECURSIVE Perms(_)
Perms(S) ==
    IF S = {} THEN {<<>>}
    ELSE UNION { {<<x>> \o p : p \in Perms(S \ {x})} : x \in S }

GlacierLists ==
    {<<"">>} \cup UNION { Perms(S) : S \in SUBSET {Regions[i] : i \in 1..MaxGlaciers} \ {{}} }

ArgsInit ==
    /\ Idle
    /\ cv = <<>>
    /\ tb = <<>>
    /\ \E l \in GlacierLists, ex \in SUBSET {Regions[i] : i \in 1..MaxGlaciers},
          sp \in BOOLEAN :
          bp = [ pc |-> "parse", arg |-> l, exists |-> ex \cup {""},
                 split_processing_around_dem_switch |-> sp,
                 glaciers |-> <<>>, glacier |-> "none",
                 script |-> 0, rng |-> 0, error |-> FALSE, invoked |-> {},
                 code |-> NoCodes, log |-> {} ]

\* glaciers = args.glaciers.split(","); the list is never empty
ParseArgs ==
    /\ bp.pc = "parse"
    /\ bp' = [bp EXCEPT !.pc = "workflow", !.glaciers = bp.arg]
    /\ UNCHANGED <<Pipeline, cv, tb>>

\* glacier = glaciers[0]; correct_glacier_velocity(glacier) up to its loop
CallWorkflow ==
    /\ bp.pc = "workflow"
    /\ LET g == bp.glaciers[1]
       IN  bp' = IF g \in bp.exists
                 THEN [bp EXCEPT !.pc = "finished", !.glacier = g]
                 ELSE [bp EXCEPT !.pc = "chain", !.glacier = g,
                                 !.script = 1, !.rng = 1]
    /\ UNCHANGED <<Pipeline, cv, tb>>

\* one script on one date range, with exit code c
ChainScript ==
    /\ bp.pc = "chain"
    /\ \E c \in {0, 1} :
          LET ranges == IF bp.split_processing_around_dem_switch THEN 2 ELSE 1
              inv == bp.invoked \cup {<<bp.glacier, bp.script, bp.rng>>}
              ex == IF bp.split_processing_around_dem_switch
                    THEN bp.exists ELSE bp.exists \cup {bp.glacier}
              here == <<bp.script, bp.rng>>
              \* errored_glaciers.log, and the orchestrator's own messages
              lg == bp.log \cup
                    IF c = 0 THEN {}
                    ELSE IF script_infos[bp.script].graceful_failure
                    THEN {<<"errored", here>>, <<"continuing", here>>}
                    ELSE {<<"errored", here>>, <<"stopping", here>>}
              ran == [bp EXCEPT !.invoked = inv, !.exists = ex,
                                !.code[here] = c, !.log = lg]
          IN  bp' = IF StopsOnError(bp.script, c)
                    THEN [ran EXCEPT !.pc = "finished", !.error = TRUE]
                    ELSE IF bp.rng < ranges
                    THEN [ran EXCEPT !.rng = @ + 1]
                    ELSE IF bp.script < Len(script_infos)
                    THEN [ran EXCEPT !.script = @ + 1, !.rng = 1]
                    ELSE [ran EXCEPT !.pc = IF bp.split_processing_around_dem_switch
                                            THEN "combine" ELSE "finished"]
    /\ UNCHANGED <<Pipeline, cv, tb>>

\* 4d_netcdf_stack_pre_post_dem_switch.py
CombineRanges ==
    /\ bp.pc = "combine"
    /\ bp' = [bp EXCEPT !.pc = "finished",
                        !.invoked = @ \cup {<<bp.glacier, Len(script_infos) + 1, 1>>}]
    /\ UNCHANGED <<Pipeline, cv, tb>>

ArgsNext == ParseArgs \/ CallWorkflow \/ ChainScript \/ CombineRanges

SpecArgs == ArgsInit /\ [][ArgsNext]_vars

(***************************************************************************)
(* The OrbitCatalog of 1_match_to_orbits.py and the PairTable of           *)
(* 2_get_orbital_average_offset.py, on concrete scenes.  A date is a day   *)
(* number (consecutive YYYYMMDD values), a date-hour key is <<day, hour>>, *)
(* a datetime is counted in hours, so day_sep and baseline are in 24ths    *)
(* of a day.                                                               *)
(***************************************************************************)
MaxDay == 4
MaxManifests == 2

Days == 1..MaxDay

\* the clipped images that may exist: one per day
AllScenes ==
    { [ day |-> d,
        hour |-> IF d % 2 = 1 THEN 10 ELSE 15,
        orbit |-> IF d % 2 = 1 THEN "096" ELSE "053" ] : d \in Days }

\* the datehour string YYYYMMDDTHH of a scene, and its datetime
Key(s) == <<s.day, s.hour>>

KeyTime(k) == k[1] * 24 + k[2]

OrbitCatalogInclusive(images, start, end) ==
    {s \in images : start <= s.day /\ s.day <= end}

\* df[(datetime_as_int > int(start_date)) & (datetime_as_int < int(end_date))]
OrbitCatalog(images, start, end) ==
    {s \in images : start < s.day /\ s.day < end}

\* orbital_df after the two string comparisons with start_date and end_date
MetadataRows(catalog, start, end) ==
    {s \in catalog : s.day >= start /\ s.day < end}

\* the keys of orbital_dict, pb_dict and time_dict
DictKeys(rows) == {Key(s) : s \in rows}

\* Series.map(orbital_dict): NaN for a key the dictionary does not hold
OrbitOf(rows, k) ==
    IF k \in DictKeys(rows) THEN (CHOOSE s \in rows : Key(s) = k).orbit ELSE "nan"

\* the ids a list_good_20??.txt file may list: <<datehour 1, datehour 2>>
Ids ==
    { <<Key(q[1]), Key(q[2])>> :
         q \in {r \in AllScenes \X AllScenes : r[2].day > r[1].day} }

ManifestFiles ==
    [readable : {TRUE}, rows : {<<>>} \cup {<<id>> : id \in Ids}]
        \cup [readable : {FALSE}, rows : {<<>>}]

RECURSIVE Concat(_, _)
Concat(files, k) == IF k = 0 THEN <<>> ELSE Concat(files, k - 1) \o files[k].rows

\* good_vel_paths: the files whose content is not empty
NonEmpty(files) == {k \in DOMAIN files : Len(files[k].rows) # 0}

\* (df['date1'] >= start_date) & (df['date2'] <= end_date)
InDates(id, start, end) ==
    KeyTime(id[1]) >= start * 24 /\ KeyTime(id[2]) <= end * 24

IsInFirstOnly(id, keys) == id[1] \in keys

\* datehourstr_1.isin(time_dict.keys()) & datehourstr_2.isin(time_dict.keys())
IsIn(id, keys) == id[1] \in keys /\ id[2] \in keys

\* the time-based and orbit columns of one row
Columns(id, rows) ==
    [ id |-> id,
      datetime_1 |-> KeyTime(id[1]),
      datetime_2 |-> KeyTime(id[2]),
      day_sep |-> KeyTime(id[1]) - KeyTime(id[2]),
      baseline |-> KeyTime(id[2]) - KeyTime(id[1]),
      orbit1 |-> OrbitOf(rows, id[1]),
      orbit2 |-> OrbitOf(rows, id[2]),
      orbit_pair |-> PairKey(OrbitOf(rows, id[1]), OrbitOf(rows, id[2])),
      orbit_match |-> OrbitMatch(OrbitOf(rows, id[1]), OrbitOf(rows, id[2])) ]

TableInit ==
    /\ Idle
    /\ cv = <<>>
    /\ bp = <<>>
    /\ \E images \in SUBSET AllScenes, start \in 0..1, end \in MaxDay..(MaxDay + 1),
          n \in 0..MaxManifests :
          \E files \in [1..n -> ManifestFiles] :
             tb = [ pc |-> "start", images |-> images, start_date |-> start,
                    end_date |-> end, manifests |-> files,
                    catalog |-> {}, df |-> <<>>, table |-> <<>>,
                    exit |-> "none", csv |-> FALSE ]

\* 1_match_to_orbits.py writes <glacier>_orbits.csv
MatchToOrbits ==
    /\ tb.pc = "start"
    /\ tb' = [tb EXCEPT !.pc = "catalog",
                        !.catalog = OrbitCatalog(tb.images, tb.start_date, tb.end_date)]
    /\ UNCHANGED <<Pipeline, cv, bp>>

\* the manifests are read and concatenated
LoadManifests ==
    /\ tb.pc = "catalog"
    /\ IF \E k \in DOMAIN tb.manifests : ~tb.manifests[k].readable
       THEN tb' = [tb EXCEPT !.pc = "exit", !.exit = "exception"]
       ELSE IF NonEmpty(tb.manifests) = {}
       THEN tb' = [tb EXCEPT !.pc = "exit", !.exit = "no_manifest"]
       ELSE tb' = [tb EXCEPT !.pc = "loaded",
                             !.df = Concat(tb.manifests, Len(tb.manifests))]
    /\ UNCHANGED <<Pipeline, cv, bp>>

\* the date filter and the join with the catalog by date-hour
JoinCatalog ==
    /\ tb.pc = "loaded"
    /\ LET keys == DictKeys(MetadataRows(tb.catalog, tb.start_date, tb.end_date))
           keep(id) == InDates(id, tb.start_date, tb.end_date) /\ IsIn(id, keys)
       IN  tb' = [tb EXCEPT !.pc = "joined", !.df = SelectSeq(tb.df, keep)]
    /\ UNCHANGED <<Pipeline, cv, bp>>

\* the datetime, day_sep, baseline and orbit columns; orbit_pairs.csv
AddColumns ==
    /\ tb.pc = "joined"
    /\ LET rows == MetadataRows(tb.catalog, tb.start_date, tb.end_date)
           keys == DictKeys(rows)
       IN  IF \E i \in DOMAIN tb.df : tb.df[i][1] \notin keys \/ tb.df[i][2] \notin keys
           THEN tb' = [tb EXCEPT !.pc = "exit", !.exit = "KeyError"]
           ELSE tb' = [tb EXCEPT !.pc = "done", !.csv = TRUE,
                                 !.table = [i \in DOMAIN tb.df |-> Columns(tb.df[i], rows)]]
    /\ UNCHANGED <<Pipeline, cv, bp>>

TableNext == MatchToOrbits \/ LoadManifests \/ JoinCatalog \/ AddColumns

SpecTable == TableInit /\ [][TableNext]_vars

(***************************************************************************)
(* The split around the DEM switch: the orchestrator's date ranges and     *)
(* the OrbitCatalog that 1_match_to_orbits.py writes for each of them.     *)
(* Dates are the integers YYYYMMDD.                                        *)
(***************************************************************************)
DemSwitch == 20210823
PreSwitchEnd == 20210822
MaxSpan == 2

SwitchDays == (DemSwitch - MaxSpan)..(DemSwitch + MaxSpan)

SwitchScenes == { [day |-> d, hour |-> 15, orbit |-> "053"] : d \in SwitchDays }

\* int(start_date) < 20210823 and int(end_date) >= 20210823
SplitAroundDemSwitch(start, end) == start < DemSwitch /\ end >= DemSwitch

\* date_bounds_and_base_dirs_to_use_for_this_script
DateBounds(start, end) ==
    IF SplitAroundDemSwitch(start, end)
    THEN << [start_date |-> start, end_date |-> PreSwitchEnd, base_dir |-> "pre_dem_switch"],
            [start_date |-> DemSwitch, end_date |-> end, base_dir |-> "post_dem_switch"] >>
    ELSE << [start_date |-> start, end_date |-> end, base_dir |-> "base_dir"] >>

SplitInit ==
    /\ Idle
    /\ cv = <<>>
    /\ bp = <<>>
    /\ \E images \in SUBSET SwitchScenes,
          start \in {DemSwitch - MaxSpan - 1, DemSwitch - MaxSpan, DemSwitch},
          end \in {PreSwitchEnd, DemSwitch, DemSwitch + MaxSpan, DemSwitch + MaxSpan + 1} :
          /\ start < end
          /\ tb = [ pc |-> "start", images |-> images,
                    start_date |-> start, end_date |-> end,
                    bounds |-> <<>>, catalogs |-> <<>> ]

\* correct_glacier_velocity decides about the split
ChooseBounds ==
    /\ tb.pc = "start"
    /\ tb' = [tb EXCEPT !.pc = "step1",
                        !.bounds = DateBounds(tb.start_date, tb.end_date)]
    /\ UNCHANGED <<Pipeline, cv, bp>>

\* 1_match_to_orbits.py on the next date range
MatchRange ==
    /\ tb.pc = "step1"
    /\ LET k == Len(tb.catalogs) + 1
           b == tb.bounds[k]
       IN  tb' = [tb EXCEPT
                    !.catalogs = Append(@, OrbitCatalog(tb.images, b.start_date, b.end_date)),
                    !.pc = IF k = Len(tb.bounds) THEN "done" ELSE "step1"]
    /\ UNCHANGED <<Pipeline, cv, bp>>

SplitNext == ChooseBounds \/ MatchRange

SpecSplit == SplitInit /\ [][SplitNext]_vars

(***************************************************************************)
(* The mask section of 3_correct_fields.py with clip_gimp_tiles, on the    *)
(* pixels of the cropped GIMP tiles.  tb.files maps the name of each mask  *)
(* file on disk to its array.                                              *)
(***************************************************************************)
MaxMaskPx == 2
MaxMaskRuns == 3

\* np.where((cropped_ice_mask == 0) & (cropped_ocean_mask == 0), 1, 0)
RockMask(ice, ocean) ==
    [k \in DOMAIN ice |-> IF ice[k] = 0 /\ ocean[k] = 0 THEN 1 ELSE 0]

\* the three arrays clip_gimp_tiles exports
MaskArrays(ice, ocean) ==
    [n \in {"ice", "ocean", "rock"} |->
        IF n = "ice" THEN ice ELSE IF n = "ocean" THEN ocean ELSE RockMask(ice, ocean)]

\* export_tif_to_target_geotransform for the files named in new
Export(files, new, arrays) ==
    [n \in DOMAIN files \cup new |-> IF n \in new THEN arrays[n] ELSE files[n]]

MasksInit ==
    /\ Idle
    /\ cv = <<>>
    /\ bp = <<>>
    /\ \E ice \in [1..MaxMaskPx -> {0, 1}], ocean \in [1..MaxMaskPx -> {0, 1}] :
          tb = [ pc |-> "gate", tiles |-> [ice |-> ice, ocean |-> ocean],
                 files |-> <<>>, runs |-> 1, faults |-> 0, loaded |-> {} ]

\* if not os.path.exists(rock_mask_fpath)
MaskGate ==
    /\ tb.pc = "gate"
    /\ tb' = [tb EXCEPT !.pc = IF "rock" \in DOMAIN tb.files THEN "load" ELSE "clip"]
    /\ UNCHANGED <<Pipeline, cv, bp>>

\* clip_gimp_tiles, complete or interrupted after k of its exports
ClipGimpTiles ==
    /\ tb.pc = "clip"
    /\ LET arrays == MaskArrays(tb.tiles.ice, tb.tiles.ocean)
       IN  \/ tb' = [tb EXCEPT
                       !.pc = "load",
                       !.files = Export(@, Written(MaskOrder, Len(MaskOrder)), arrays)]
           \/ /\ tb.faults < MaxFaults
              /\ \E k \in 0..(Len(MaskOrder) - 1) :
                    tb' = [tb EXCEPT
                             !.pc = "ended", !.faults = @ + 1,
                             !.files = Export(@, Written(MaskOrder, k), arrays)]
    /\ UNCHANGED <<Pipeline, cv, bp>>

\* rockmask_array and icemask_array are loaded
LoadMasks ==
    /\ tb.pc = "load"
    /\ tb' = [tb EXCEPT
                !.pc = "ended",
                !.loaded = IF {"rock", "ice"} \subseteq DOMAIN tb.files
                           THEN {"rock", "ice"} ELSE {}]
    /\ UNCHANGED <<Pipeline, cv, bp>>

\* the script is run again on the same mask directory
RunAgain ==
    /\ tb.pc = "ended"
    /\ tb.runs < MaxMaskRuns
    /\ tb' = [tb EXCEPT !.pc = "gate", !.runs = @ + 1, !.loaded = {}]
    /\ UNCHANGED <<Pipeline, cv, bp>>

MasksNext == MaskGate \/ ClipGimpTiles \/ LoadMasks \/ RunAgain

SpecMasks == MasksInit /\ [][MasksNext]_vars

(***************************************************************************)
(* Properties.                                                             *)
(***************************************************************************)
PairCount(p) == Cardinality(PairRows(df, p))

PairsOfTable == {df[i].orbit_pair : i \in DOMAIN df}

BelowRecords == {i \in DOMAIN df : PairCount(df[i].orbit_pair) < THRESH_COUNT}

\* the offset stage has finished in the first invocation, on a fresh tree
OffsetStageDoneFresh == ~resumed /\ code[<<2, 1>>] = 0

\* C1: after the offset stage finishes on a fresh output directory, every
\* orbit pair with at least THRESH_COUNT records has both its dx and its dy
\* offset raster, every pair with fewer has none, and each such pair has its
\* own "insufficient velocity fields" log entry.
C1_OffsetsMatchThreshold ==
    OffsetStageDoneFresh =>
        \A p \in PairsOfTable :
            /\ PairCount(p) >= THRESH_COUNT =>
                   offset[<<p, "dx">>] /\ offset[<<p, "dy">>]
            /\ PairCount(p) < THRESH_COUNT =>
                   /\ ~offset[<<p, "dx">>] /\ ~offset[<<p, "dy">>]
                   /\ <<"insufficient", p>> \in log

C1_Witness ==
    /\ OffsetStageDoneFresh
    /\ \E p \in PairsOfTable : PairCount(p) >= THRESH_COUNT /\ offset[<<p, "dy">>]
    /\ \E p \in PairsOfTable : PairCount(p) < THRESH_COUNT /\ <<"insufficient", p>> \in log

C6_MedianIdempotent ==
    [][ ( /\ Detailed(2) /\ phase = "median"
          /\ FileExists(median[MedianOrder[idx]])
          /\ phase' # "begin" )
        => ( median' = median /\ medianSrc' = medianSrc /\ rd' = rd ) ]_vars

C6_Witness ==
    /\ <<"median_exists", "dmag">> \in log
    /\ Detailed(2) /\ phase = "median" /\ idx = 2
    /\ rd = {}

\* a pass of the FieldCorrector loop over record idx, not itself interrupted
LoopPass == Detailed(3) /\ phase = "loop" /\ idx <= Len(df) /\ faults' = faults

LoopContinues == idx' = idx + 1 /\ orch' = "running" /\ script' = 3 /\ phase' = "loop"

\* C7: in the FieldCorrector loop, a record whose orbit pair lacks the dx or
\* the dy offset raster is skipped: nothing is written for it, the script
\* does not end, and the loop goes on to the next record.
C7_EitherOffsetAbsentSkips ==
    [][ ( /\ LoopPass
          /\ \/ ~offset[<<df[idx].orbit_pair, "dx">>]
             \/ ~offset[<<df[idx].orbit_pair, "dy">>] )
        => ( cor' = cor /\ LoopContinues ) ]_vars

\* a pass over a record whose pair has the dx offset raster and no dy one
C7_Witness ==
    /\ Detailed(3) /\ phase = "loop" /\ idx <= Len(df)
    /\ offset[<<df[idx].orbit_pair, "dx">>]
    /\ ~offset[<<df[idx].orbit_pair, "dy">>]
    /\ "vv" \notin cor[idx]

\* C8: a record whose orbit pair has fewer than THRESH_COUNT records never
\* has a corrected file written; the loop pass over such a record neither
\* writes nor ends the script; and when the correction script exits with 0
\* every record of the other pairs is corrected (its magnitude raster
\* exists) or was dropped for low ice coverage.
C8_BelowThresholdNeverCorrected ==
    /\ [](\A i \in BelowRecords : cor[i] = {})
    /\ [][ ( LoopPass /\ idx \in BelowRecords )
           => ( cor' = cor /\ LoopContinues ) ]_vars
    /\ [](code[<<3, 1>>] = 0 =>
             \A i \in (DOMAIN df) \ BelowRecords : "vv" \in cor[i] \/ i \in lowcov)

C8_Witness ==
    /\ ~resumed /\ code[<<3, 1>>] = 0
    /\ BelowRecords # {}
    /\ \E i \in (DOMAIN df) \ BelowRecords : cor[i] = CorFiles

\* script s has been started in this invocation of the orchestrator
Started(s) ==
    \/ orch = "running" /\ script = s
    \/ \E r \in 1..NRanges : code[<<s, r>>] # -1

AnyOffset == \E f \in DOMAIN offset : offset[f]

C10_RecordFailureSkipsRecord ==
    [][ ( /\ Detailed(3) /\ phase = "loop" /\ idx <= Len(df)
          /\ why' = "record" )
        => LoopContinues ]_vars

\* the script has ended on an unreadable record with records left uncorrected
C10_Witness ==
    /\ code[<<3, 1>>] = 1 /\ why = "record"
    /\ \E i \in (DOMAIN df) \ BelowRecords : cor[i] = {} /\ i \notin lowcov

\* C2: once correct_velocity has applied the offsets, at every pixel where
\* the loaded raw value and the orbit pair's offset are both finite the
\* corrected value (before the directional filter) is raw + offset / day_sep,
\* for dx and for dy each on its own; with day_sep 10, raw dx 2.0 and offset
\* 5.0 it is 2.5.
C2_CorrectedIsRawPlusOffsetPerDay ==
    cv.pc \in {"corrected", "filtered", "done"} =>
        \A k \in DOMAIN cv.px :
            /\ (Finite(cv.dx[k]) /\ Finite(cv.px[k].off_dx)) =>
                  /\ Finite(cv.dx_pre[k])
                  /\ cv.dx_pre[k][1] * cv.day_sep
                        = cv.dx[k][1] * cv.day_sep + cv.px[k].off_dx[1]
                  /\ (cv.day_sep = 10 /\ cv.dx[k] = <<20>> /\ cv.px[k].off_dx = <<50>>)
                        => cv.dx_pre[k] = <<25>>
            /\ (cv.pc = "corrected" /\ Finite(cv.dy[k]) /\ Finite(cv.px[k].off_dy)) =>
                  /\ Finite(cv.dy_cor[k])
                  /\ cv.dy_cor[k][1] * cv.day_sep
                        = cv.dy[k][1] * cv.day_sep + cv.px[k].off_dy[1]

C2_Witness ==
    /\ cv.pc = "corrected"
    /\ cv.day_sep = 10
    /\ cv.dx[1] = <<20>> /\ cv.px[1].off_dx = <<50>> /\ cv.dx_pre[1] = <<25>>
    /\ IsNaN(cv.dx[2]) /\ cv.dy_cor[2] = <<25>>

\* C3: correct_velocity writes its output (dx, dy, magnitude rasters and the
\* metadata) exactly when, after the directional filter, the non-NaN
\* corrected-dx pixels over ice are at least 0.01 of the ice pixels; with a
\* fraction of 0 or anything under 0.01 it writes no file at all.
C3_WrittenIffCoverage ==
    cv.pc = "done" =>
        LET ice == IcePxCount(cv.px)
            valid == IcePxVelCount(cv.px, cv.dx_cor)
        IN  /\ ice > 0 =>
                 /\ (cv.out = "written") = (valid * 100 >= ice)
                 /\ valid * 100 < ice => cv.files = {}
                 /\ valid * 100 >= ice => cv.files = CorFiles
            /\ cv.out # "written" => cv.files = {}

C3_Witness ==
    /\ cv.pc = "done"
    /\ cv.out = "written"
    /\ IcePxVelCount(cv.px, cv.dx_cor) * 100 = IcePxCount(cv.px)
    /\ IsNaN(cv.dx_cor[2]) /\ Finite(cv.dx_pre[2])

\* C4: for a reference angle and a corrected angle both in (-180, 180], the
\* angular difference of the directional filter is min(|a-b|, 360-|a-b|),
\* which lies in [0, 180]; reference 179 and corrected -179 give 2.
C4_AngularDifferenceWraps ==
    cv.pc = "diff" =>
        LET d == Abs(cv.ref - cv.angle)
            m == IF d <= 360000 - d THEN d ELSE 360000 - d
        IN  /\ cv.flow_diff = <<m>>
            /\ 0 <= cv.flow_diff[1] /\ cv.flow_diff[1] <= 180000
            /\ (cv.ref = 179000 /\ cv.angle = -179000) => cv.flow_diff = <<2000>>

C4_Witness ==
    /\ cv.pc = "diff"
    /\ cv.ref = 179000 /\ cv.angle = -179000
    /\ cv.flow_diff = <<2000>>

\* C11: every skip is logged with its reason: once the correction script has
\* exited with 0, every record left without corrected output has a log
\* entry naming the record and the reason (no offset for its pair, or too
\* little ice coverage), and every orbit pair under the threshold has its
\* own log entry.
C11_EverySkipLogged ==
    code[<<3, 1>>] = 0 =>
        /\ \A i \in DOMAIN df :
              "vv" \notin cor[i] =>
                  \/ <<"no_offset", i>> \in log
                  \/ <<"low_coverage", i>> \in log
        /\ \A p \in PairsOfTable :
              PairCount(p) < THRESH_COUNT => <<"insufficient", p>> \in log

\* the correction script has exited with 0, having skipped a record for a
\* missing offset and another for low ice coverage
C11_Witness ==
    /\ code[<<3, 1>>] = 0
    /\ \E i \in BelowRecords : cor[i] = {}
    /\ \E i \in lowcov : cor[i] = {} /\ offset[<<df[i].orbit_pair, "dy">>]

\* C12: every PairTable record's day_sep is the second scene's acquisition
\* time minus the first scene's (date2 - date1), signed, so a record whose
\* second scene is the later one has a positive day_sep.
C12_DaySepIsSecondMinusFirst ==
    tb.pc = "done" =>
        \A i \in DOMAIN tb.table :
            /\ tb.table[i].day_sep = tb.table[i].datetime_2 - tb.table[i].datetime_1
            /\ tb.table[i].datetime_2 > tb.table[i].datetime_1 => tb.table[i].day_sep > 0

\* a written PairTable with a record whose second scene is later and whose
\* day_sep is negative
C12_Witness ==
    /\ tb.pc = "done" /\ tb.csv
    /\ \E i \in DOMAIN tb.table :
          /\ tb.table[i].datetime_2 > tb.table[i].datetime_1
          /\ tb.table[i].day_sep = tb.table[i].datetime_1 - tb.table[i].datetime_2
          /\ tb.table[i].day_sep < 0

CatalogKeys == {Key(s) : s \in tb.catalog}

\* C13: every record of the PairTable has both of its date-hour keys in the
\* OrbitCatalog (a manifest row with either key absent is dropped by the
\* join), so the lookups never fail and every surviving record has defined
\* orbit ids and a defined orbit-pair key.
C13_BothKeysInCatalog ==
    /\ tb.pc \in {"joined", "done"} =>
          \A i \in DOMAIN tb.df :
              tb.df[i][1] \in CatalogKeys /\ tb.df[i][2] \in CatalogKeys
    /\ tb.exit # "KeyError"
    /\ tb.pc = "done" =>
          \A i \in DOMAIN tb.table :
              /\ tb.table[i].id[1] \in CatalogKeys /\ tb.table[i].id[2] \in CatalogKeys
              /\ tb.table[i].orbit1 # "nan" /\ tb.table[i].orbit2 # "nan"
              /\ tb.table[i].orbit_pair
                    = PairKey((CHOOSE s \in tb.catalog : Key(s) = tb.table[i].id[1]).orbit,
                              (CHOOSE s \in tb.catalog : Key(s) = tb.table[i].id[2]).orbit)

\* a written PairTable that kept a row and dropped another for a date-hour
\* that the catalog does not hold
C13_Witness ==
    /\ tb.pc = "done" /\ Len(tb.table) = 1
    /\ \E k \in DOMAIN tb.manifests :
          /\ Len(tb.manifests[k].rows) = 1
          /\ tb.manifests[k].rows[1][1] \in CatalogKeys
          /\ tb.manifests[k].rows[1][2] \notin CatalogKeys

C15_AbortsIffNoNonEmptyManifest ==
    tb.pc \in {"exit", "loaded", "joined", "done"} =>
        /\ (tb.exit # "none") <=> (NonEmpty(tb.manifests) = {})
        /\ tb.exit # "none" => ~tb.csv

\* the step has aborted on an unreadable manifest although another manifest
\* is readable and not empty
C15_Witness ==
    /\ tb.pc = "exit" /\ tb.exit = "exception" /\ ~tb.csv
    /\ NonEmpty(tb.manifests) # {}
    /\ \E k \in DOMAIN tb.manifests : ~tb.manifests[k].readable

\* C16: whenever the PairTable holds no repeat-track record the offset stage
\* ends in a fatal error and computes no orbit-pair offset, in every run,
\* also when reference rasters of an earlier run are on disk.
C16_EmptyRepeatTrackIsFatal ==
    RepeatTrackRows(df) = {} =>
        /\ code[<<2, 1>>] # 0
        /\ ~(Detailed(2) /\ phase = "offsets")
        /\ ~AnyOffset

\* the offset stage has exited with 0 and written an offset although the
\* PairTable holds no repeat-track record
C16_Witness ==
    /\ RepeatTrackRows(df) = {}
    /\ FileExists(median["dy"])
    /\ code[<<2, 1>>] = 0
    /\ AnyOffset
    /\ <<"no_repeat_track">> \notin log

\* the records of the pair whose raw value and reference are finite here
FiniteRecs ==
    {i \in DOMAIN cv.recs :
        /\ Finite(LoadPx(cv.ref_file))
        /\ cv.recs[i].file \notin nodata_values
        /\ ~(cv.recs[i].mask_exists /\ cv.recs[i].m = 0)}

\* (reference - raw_i) * day_sep_i
OwnDisplacement(i) == (cv.ref_file - cv.recs[i].file) * cv.recs[i].day_sep

\* v is the k-th smallest of the records' displacements
IsKth(v, k) ==
    /\ \E i \in FiniteRecs : OwnDisplacement(i) = v
    /\ Cardinality({i \in FiniteRecs : OwnDisplacement(i) < v}) < k
    /\ Cardinality({i \in FiniteRecs : OwnDisplacement(i) <= v}) >= k

C18_SameFormulaAsReference ==
    cv.pc = "filtered" =>
        \A k \in DOMAIN cv.px : cv.angle[k] = FlowDirection(cv.dx_pre[k], cv.dy_cor[k])

\* a pixel whose raw dx is positive and whose corrected dx is negative
C18_Witness ==
    /\ cv.pc = "filtered"
    /\ cv.dx[1] = <<20>> /\ cv.dx_pre[1] = <<-5>> /\ cv.dy_cor[1] = <<-5>>
    /\ cv.angle[1] = <<45000>>
    /\ FlowDirection(cv.dx_pre[1], cv.dy_cor[1]) = <<-135000>>

\* C19: the directional filter sets the corrected dx to NaN at exactly the
\* pixels over ice (ice mask 1) whose angular difference from the reference
\* flow direction exceeds 20 degrees; pixels not over ice, pixels with a
\* difference of at most 20 and pixels with an undefined difference keep
\* their corrected dx.
C19_FilterOnlyIceOver20 ==
    cv.pc = "filtered" =>
        \A k \in DOMAIN cv.px :
            LET over == /\ cv.px[k].ice = 1
                        /\ cv.flow_diff[k] # NaN
                        /\ cv.flow_diff[k][1] > 20000
            IN  /\ over => IsNaN(cv.dx_cor[k])
                /\ ~over => cv.dx_cor[k] = cv.dx_pre[k]

\* a pixel over ice at exactly 20 degrees that is kept, beside a pixel over
\* ice beyond 20 degrees that is removed
C19_Witness ==
    /\ cv.pc = "filtered"
    /\ cv.px[1].ice = 1 /\ cv.flow_diff[1] = <<20000>>
    /\ Finite(cv.dx_pre[1]) /\ cv.dx_cor[1] = cv.dx_pre[1]
    /\ cv.px[2].ice = 1 /\ Finite(cv.flow_diff[2]) /\ cv.flow_diff[2][1] > 20000
    /\ Finite(cv.dx_pre[2]) /\ IsNaN(cv.dx_cor[2])

\* C20: resumed runs of the correction are safe: after a run interrupted
\* during a record's output writes (dx, dy, magnitude raster, metadata JSON)
\* and a further run that ends with exit code 0, every record has either no
\* output or the complete output set of an uninterrupted run; no record has
\* a magnitude raster without its metadata JSON.
C20_ResumedRunLeavesCompleteSets ==
    (resumed /\ code[<<3, 1>>] = 0) =>
        \A i \in DOMAIN cor :
            /\ cor[i] \in {{}, CorFiles}
            /\ "vv" \in cor[i] => "meta" \in cor[i]

\* a finished re-run that found a record's magnitude raster, skipped the
\* record, and left it without metadata
C20_Witness ==
    /\ resumed /\ code[<<3, 1>>] = 0
    /\ \E i \in DOMAIN cor :
          /\ cor[i] = {"vx", "vy", "vv"}
          /\ <<"record_exists", i>> \in log

\* C21: when several glaciers are processed concurrently by the worker pool,
\* no two workers ever write to the same file: each worker writes only its
\* own glacier's output subtree and log file.
C21_WorkersWriteDisjointFiles ==
    /\ \A w1, w2 \in bp.writes : w1[2] = w2[2] => w1[1] = w2[1]
    /\ \A w \in bp.writes : w[2] \in {OutTree(w[1]), LogName(w[1])}

\* two workers running at the same time, each having had a script fail
C21_Witness ==
    /\ Len(bp.glaciers_to_process) >= 2
    /\ bp.task[1] = "running" /\ bp.task[2] = "running"
    /\ \A i \in {1, 2} :
          <<bp.glaciers_to_process[i], <<"LOG_DIR", "errored_glaciers.log">>>> \in bp.writes

\* C22: the orchestrator runs the chain for every glacier of the
\* comma-separated --glaciers list: once it has finished, every listed
\* glacier whose output directory did not exist has had step 1 invoked.
C22_EveryListedGlacierProcessed ==
    bp.pc = "finished" =>
        \A k \in DOMAIN bp.arg :
            \/ <<bp.arg[k], 1, 1>> \in bp.invoked
            \/ bp.arg[k] \in bp.exists

\* a finished run over a list of two glaciers that ran the chain for the
\* first and left the second without output directory
C22_Witness ==
    /\ bp.pc = "finished"
    /\ Len(bp.arg) = 2
    /\ <<bp.arg[1], 1, 1>> \in bp.invoked
    /\ bp.arg[2] \notin bp.exists
    /\ \A w \in bp.invoked : w[1] # bp.arg[2]

\* the positions <<script, date range>> of one run, in the order of the loops
Positions ==
    {p \in DOMAIN bp.code :
        p[2] <= (IF bp.split_processing_around_dem_switch THEN 2 ELSE 1)}

Later(p, q) == q[1] > p[1] \/ (q[1] = p[1] /\ q[2] > p[2])

Combined == \E w \in bp.invoked : w[2] = Len(script_infos) + 1

\* C23: if a step that may not fail gracefully (1, 2, 3, 4c) exits non-zero
\* for a date range, no later step, no remaining date range of that step
\* and not the 4d combine step is run for the glacier; if a graceful step
\* (4a, 4b) exits non-zero, the failure is logged and the subsequent steps
\* are still run.
C23_NonGracefulStopsGracefulContinues ==
    \A p \in Positions :
        bp.code[p] \notin {-1, 0} =>
            IF script_infos[p[1]].graceful_failure
            THEN /\ <<"continuing", p>> \in bp.log
                 /\ <<"errored", p>> \in bp.log
                 /\ bp.pc \in {"combine", "finished"} =>
                       \A q \in Positions :
                           Later(p, q) =>
                               \/ bp.code[q] # -1
                               \/ \E f \in Positions :
                                     /\ Later(f, q)
                                     /\ ~script_infos[f[1]].graceful_failure
                                     /\ bp.code[f] \notin {-1, 0}
                 /\ (bp.pc = "finished"
                       /\ bp.split_processing_around_dem_switch
                       /\ ~bp.error) => Combined
            ELSE /\ bp.pc = "finished"
                 /\ bp.error
                 /\ \A q \in Positions : Later(p, q) => bp.code[q] = -1
                 /\ ~Combined

\* a split run in which 4a failed on the first date range and everything
\* after it, the combine step included, was run
C23_Witness ==
    /\ bp.pc = "finished"
    /\ bp.split_processing_around_dem_switch
    /\ bp.code[<<4, 1>>] = 1
    /\ \A q \in Positions : Later(<<4, 1>>, q) => bp.code[q] = 0
    /\ Combined

\* C24: when the date range spans the DEM switch and processing is split
\* into the runs start_date..20210822 and 20210823..end_date, the two runs
\* partition the input: every scene an unsplit run over
\* (start_date, end_date) would put in the OrbitCatalog is in the catalog
\* of exactly one of the two runs, and no scene is in both.
C24_SplitRunsPartitionCatalog ==
    (tb.pc = "done" /\ Len(tb.bounds) = 2) =>
        /\ \A s \in OrbitCatalog(tb.images, tb.start_date, tb.end_date) :
              s \in tb.catalogs[1] \cup tb.catalogs[2]
        /\ tb.catalogs[1] \cap tb.catalogs[2] = {}

\* a split run with a scene of 2021-08-23 that an unsplit run would keep
\* and neither of the two runs has in its catalog
C24_Witness ==
    /\ tb.pc = "done" /\ Len(tb.bounds) = 2
    /\ \E s \in OrbitCatalog(tb.images, tb.start_date, tb.end_date) :
          /\ s.day = 20210823
          /\ s \notin tb.catalogs[1] \cup tb.catalogs[2]
    /\ tb.catalogs[1] # {} /\ tb.catalogs[2] # {}

\* C25: whenever the offset stage (step 2) exits with code 0, also in a run
\* resumed after an earlier run was interrupted while the reference rasters
\* were being written, the four reference rasters (median dmag, dx, dy and
\* the flow direction) all exist, so the correction never starts with a
\* reference raster missing.
C25_ReferenceCompleteAfterStep2 ==
    code[<<2, 1>>] = 0 =>
        /\ \A w \in Wild : FileExists(median[w])
        /\ flowdir

\* a resumed run whose step 2 found the median dy raster, skipped the
\* a priori section and exited with 0 although the flow direction is absent
C25_Witness ==
    /\ resumed
    /\ code[<<2, 1>>] = 0
    /\ \A w \in Wild : FileExists(median[w])
    /\ ~flowdir
    /\ <<"median_exists", "dy">> \notin log

\* C26: after the offset stage has finished, also in a run resumed after an
\* interruption between the writes of the two component files, every orbit
\* pair has either both its dx and dy offset rasters or neither; no pair
\* has a dx offset without a dy offset.
C26_OffsetComponentsTogether ==
    code[<<2, 1>>] = 0 =>
        \A p \in Orbits \X Orbits : offset[<<p, "dx">>] = offset[<<p, "dy">>]

\* a resumed offset stage that found a pair's dx offset, skipped the pair
\* and finished with the dy offset of that pair absent
C26_Witness ==
    /\ resumed
    /\ code[<<2, 1>>] = 0
    /\ \E p \in Orbits \X Orbits :
          /\ offset[<<p, "dx">>] /\ ~offset[<<p, "dy">>]
          /\ <<"offset_exists", p, "dx">> \in log

\* C27: a glacier whose chain failed at some step in an earlier invocation
\* is processed again by a later invocation with the same arguments: the
\* orchestrator runs the chain for it again, so that the existence checks of
\* the stages can resume from what is on disk.
C27_FailedGlacierIsRerun ==
    [][ (orch = "done" /\ why # "none" /\ resumed') => orch' = "running" ]_vars

\* a later invocation that has ended without running any script, on an
\* output tree whose reference rasters were never completed
C27_Witness ==
    /\ resumed /\ orch = "done"
    /\ \A sr \in DOMAIN code : code[sr] = -1
    /\ ~split /\ outdir
    /\ ~flowdir

\* C28: in every written record the components are consistent: the NaN
\* pixels of the written dx raster are the NaN pixels of the written dy
\* raster, and the magnitude raster is NaN at exactly those pixels.
C28_WrittenComponentsShareNaN ==
    (cv.pc = "done" /\ cv.out = "written") =>
        \A k \in DOMAIN cv.px :
            /\ IsNaN(cv.dx_cor[k]) = IsNaN(cv.dy_cor[k])
            /\ IsNaN(cv.dmag_sq[k]) = IsNaN(cv.dx_cor[k])

\* a written record with a pixel over ice whose dx is valid while its dy
\* and its magnitude are NaN
C28_Witness ==
    /\ cv.pc = "done" /\ cv.out = "written"
    /\ cv.px[1].ice = 1
    /\ Finite(cv.dx_cor[1]) /\ IsNaN(cv.dy_cor[1]) /\ IsNaN(cv.dmag_sq[1])
    /\ Finite(cv.dx_cor[2]) /\ Finite(cv.dy_cor[2]) /\ Finite(cv.dmag_sq[2])

\* C29: the corrected value of every record does not depend on the sign
\* convention of day_sep: with day_sep negated for every record the offsets
\* are negated and every corrected value is unchanged, since the
\* multiplication of the offset stage and the division of the correction
\* use the same day_sep column.
C29_SignConventionIndependent ==
    /\ cv.pc \in {"offsets", "corrected"} =>
          /\ IsNaN(cv.offset2[1]) = IsNaN(cv.offset2[2])
          /\ Finite(cv.offset2[1]) => cv.offset2[2][1] = -cv.offset2[1][1]
    /\ cv.pc = "corrected" =>
          \A i \in DOMAIN cv.recs : cv.cor[1][i] = cv.cor[2][i]

\* a pair whose records have different day_sep, with a non-zero offset that
\* changes the value of a record
C29_Witness ==
    /\ cv.pc = "corrected"
    /\ Finite(cv.offset2[1]) /\ cv.offset2[1][1] # 0
    /\ \E i, j \in DOMAIN cv.recs : cv.recs[i].day_sep # cv.recs[j].day_sep
    /\ \E i \in DOMAIN cv.recs :
          /\ Finite(cv.cor[1][i])
          /\ cv.cor[1][i] # RawPx(cv.recs[i])
          /\ cv.cor[2][i] = cv.cor[1][i]

====
